---- MODULE Spec2Model ----
(***************************************************************************)
(* Model of _remove_duplicates.py: main, find_duplicates (phase 1 exact    *)
(* hash grouping, phase 2 similarity grouping, clean-up) and delete_files. *)
(*                                                                         *)
(* A path is modelled by its file name, a sequence of one-character        *)
(* strings: every path of a run is folder_path + "/" + name, so comparing  *)
(* two paths compares their names, and os.path.basename gives the name.    *)
(* A Python dict is a sequence of entries in insertion order; a float      *)
(* threshold or ratio is an exact fraction num/den.                        *)
(***************************************************************************)
EXTENDS Integers, Sequences, FiniteSets, TLC

\* ------------------------------------------------------------ bounds
\* The largest number of directory entries of the scanned folder.
MaxFiles == 3
\* The largest number of times main is run against the same folder.
MaxRuns == 2

\* ------------------------------------------------------------ inputs
\* The file names a folder may hold: two ordinary names, a date-like name
\* (two digits, a period, two digits) and a name that sorts before it and
\* differs from the date pattern in one character.
Names ==
  { <<"0", "1", "-", "0", "2">>,
    <<"0", "1", ".", "0", "2">>,
    <<"a">>,
    <<"b">> }

\* The contents a file may hold, each a sequence of byte lines: "x" and "y"
\* end in a line feed, "x_crlf" is the line "x" ending in carriage return and
\* line feed.
Contents ==
  { <<>>, <<"x">>, <<"x_crlf">>, <<"x", "y">>, <<"y", "x">> }

Absent == [kind |-> "absent", readable |-> FALSE, content |-> <<>>]

\* A directory entry: a regular file with its lines, a regular file that
\* cannot be opened, or a symbolic link.
FileVals ==
  { [kind |-> "file", readable |-> TRUE, content |-> c] : c \in Contents }
    \cup { [kind |-> "file", readable |-> FALSE, content |-> <<>>],
           [kind |-> "symlink", readable |-> TRUE, content |-> <<>>] }

Rat(n, d) == [given |-> TRUE, num |-> n, den |-> d]

\* args.similarity when --similarity is not given.
NoSimilarity == [given |-> FALSE, num |-> 0, den |-> 1]

\* The values of --similarity: absent, in range, and out of range.
Similarities ==
  { NoSimilarity, Rat(-1, 2), Rat(0, 1), Rat(1, 2), Rat(2, 3), Rat(1, 1),
    Rat(3, 2) }

\* What the user may type at the confirmation prompt.
TypedInputs ==
  { <<"y", "e", "s">>, <<"Y", "E", "S">>, <<"n", "o">>, <<>> }

VARIABLES
  fs, folder_is_dir, similarity, dry_run,
  pc, confirm,
  files_to_delete, unique_files_after_exact, unique_list, i, j,
  potential_similar_deletes, final_deletes,
  total_to_delete_count, total_deleted_count, pending,
  fs0, phase1, compared, attempts, runs, prev_result

vars ==
  << fs, folder_is_dir, similarity, dry_run, pc, confirm, files_to_delete,
     unique_files_after_exact, unique_list, i, j, potential_similar_deletes,
     final_deletes, total_to_delete_count, total_deleted_count, pending,
     fs0, phase1, compared, attempts, runs, prev_result >>

\* ------------------------------------------------------------ strings
\* The code point of a character.
Ord(c) ==
  CASE c = "-" -> 45
    [] c = "." -> 46
    [] c = "0" -> 48
    [] c = "1" -> 49
    [] c = "2" -> 50
    [] c = "E" -> 69
    [] c = "S" -> 83
    [] c = "Y" -> 89
    [] c = "a" -> 97
    [] c = "b" -> 98
    [] c = "e" -> 101
    [] c = "n" -> 110
    [] c = "o" -> 111
    [] c = "s" -> 115
    [] c = "y" -> 121

Chr(n) ==
  CHOOSE c \in {"-", ".", "0", "1", "2", "E", "S", "Y", "a", "b", "e", "n",
                "o", "s", "y"} : Ord(c) = n

\* str.lower on one character and on a string.
LowerChar(c) ==
  IF Ord(c) >= 65 /\ Ord(c) <= 90 THEN Chr(Ord(c) + 32) ELSE c

Lower(s) == [k \in 1..Len(s) |-> LowerChar(s[k])]

\* Python's str <: by code point, a proper prefix first.
RECURSIVE LexLess(_, _)
LexLess(s, t) ==
  IF t = <<>> THEN FALSE
  ELSE IF s = <<>> THEN TRUE
  ELSE IF Ord(Head(s)) # Ord(Head(t)) THEN Ord(Head(s)) < Ord(Head(t))
  ELSE LexLess(Tail(s), Tail(t))

IsDigit(c) == Ord(c) >= 48 /\ Ord(c) <= 57

\* re.match(r"^\d{2}\.\d{2}", filename)
DatePattern(name) ==
  /\ Len(name) >= 5
  /\ IsDigit(name[1])
  /\ IsDigit(name[2])
  /\ name[3] = "."
  /\ IsDigit(name[4])
  /\ IsDigit(name[5])

\* sorted(paths) of a set of paths
RECURSIVE SortPaths(_)
SortPaths(S) ==
  IF S = {} THEN <<>>
  ELSE LET m == CHOOSE x \in S : \A y \in S \ {x} : LexLess(x, y)
       IN <<m>> \o SortPaths(S \ {m})

Range(s) == {s[k] : k \in 1..Len(s)}

\* list.sort() of a list of distinct paths
SortList(s) == SortPaths(Range(s))

\* ------------------------------------------------------------ files
Present(dir) == {n \in Names : dir[n] # Absent}

LineCode(l) == CASE l = "x" -> 1 [] l = "y" -> 2 [] l = "x_crlf" -> 3

\* The digest of a file's bytes: one number per content, no two alike.
RECURSIVE Digest(_)
Digest(c) ==
  IF c = <<>> THEN 0 ELSE LineCode(Head(c)) + 4 * Digest(Tail(c))

\* Text mode with universal newlines: a line ending in carriage return and
\* line feed is read as the line ending in a line feed.
DecodeLine(l) == IF l = "x_crlf" THEN "x" ELSE l

\* f.readlines() of a file opened as text
ReadLines(c) == [k \in 1..Len(c) |-> DecodeLine(c[k])]

\* calculate_hash: the digest, or None when the file cannot be read.
calculate_hash(dir, p) ==
  IF dir[p].readable
  THEN [ok |-> TRUE, hex |-> Digest(dir[p].content)]
  ELSE [ok |-> FALSE, hex |-> 0]

\* read_file_lines: the lines, or None when the file cannot be read.
read_file_lines(dir, p) ==
  IF dir[p].kind = "file" /\ dir[p].readable
  THEN [ok |-> TRUE, lines |-> ReadLines(dir[p].content)]
  ELSE [ok |-> FALSE, lines |-> <<>>]

\* ------------------------------------------------------------ difflib
Min(a, b) == IF a <= b THEN a ELSE b

\* The blocks a[i..i+k) = b[j..j+k) (0-based) inside a[alo..ahi) and
\* b[blo..bhi), k >= 1.
MatchingBlocks(a, b, alo, ahi, blo, bhi) ==
  { c \in (alo..(ahi - 1)) \X (blo..(bhi - 1)) \X (1..Min(ahi - alo, bhi - blo)) :
      /\ c[1] + c[3] <= ahi
      /\ c[2] + c[3] <= bhi
      /\ \A d \in 1..c[3] : a[c[1] + d] = b[c[2] + d] }

\* SequenceMatcher.find_longest_match without junk: the longest block, of
\* those the one starting earliest in a, of those the earliest in b.
find_longest_match(a, b, alo, ahi, blo, bhi) ==
  LET M == MatchingBlocks(a, b, alo, ahi, blo, bhi)
  IN IF M = {} THEN <<alo, blo, 0>>
     ELSE CHOOSE c \in M :
            \A d \in M :
              \/ c[3] > d[3]
              \/ c[3] = d[3] /\ c[1] < d[1]
              \/ c[3] = d[3] /\ c[1] = d[1] /\ c[2] <= d[2]

\* The total size of SequenceMatcher.get_matching_blocks: the longest match,
\* then the same to its left and to its right.
RECURSIVE MatchCount(_, _, _, _, _, _)
MatchCount(a, b, alo, ahi, blo, bhi) ==
  LET m == find_longest_match(a, b, alo, ahi, blo, bhi)
  IN IF m[3] = 0 THEN 0
     ELSE m[3]
          + (IF alo < m[1] /\ blo < m[2]
             THEN MatchCount(a, b, alo, m[1], blo, m[2]) ELSE 0)
          + (IF m[1] + m[3] < ahi /\ m[2] + m[3] < bhi
             THEN MatchCount(a, b, m[1] + m[3], ahi, m[2] + m[3], bhi) ELSE 0)

\* SequenceMatcher(None, a, b, autojunk=False).ratio(): 2.0 * matches / length,
\* and 1.0 for two empty sequences.
Ratio(a, b) ==
  IF Len(a) + Len(b) = 0 THEN [num |-> 1, den |-> 1]
  ELSE [num |-> 2 * MatchCount(a, b, 0, Len(a), 0, Len(b)),
        den |-> Len(a) + Len(b)]

\* ratio >= similarity_threshold
RatioAtLeast(r, t) == r.num * t.den >= t.num * r.den

\* Mutant of Phase2Enabled: a threshold of 1.0 runs phase 2 too.
Phase2EnabledUpToOne(t) == t.given /\ t.num <= t.den

\* similarity_threshold is not None and similarity_threshold < 1.0
Phase2Enabled(t) == t.given /\ t.num < t.den

\* Mutant of InRange: the upper end is not checked.
InRangeLowerOnly(t) == 0 <= t.num

\* 0.0 <= args.similarity <= 1.0
InRange(t) == 0 <= t.num /\ t.num <= t.den

\* ------------------------------------------------------------ dicts
Keys(d) == {d[k].keep : k \in 1..Len(d)}

\* d[key], for a key of d
Get(d, key) == (CHOOSE k \in 1..Len(d) : d[k].keep = key)

Dels(d, key) == d[Get(d, key)].dels

\* defaultdict(list): d[key].extend(items), the key created when missing
Extend(d, key, items) ==
  IF key \in Keys(d)
  THEN [d EXCEPT ![Get(d, key)].dels = @ \o items]
  ELSE Append(d, [keep |-> key, dels |-> items])

\* The dict as a mapping, its insertion order forgotten.
Mapping(d) == {<<d[k].keep, d[k].dels>> : k \in 1..Len(d)}

\* every path of every delete list
AllDeleted(d) == UNION {Range(d[k].dels) : k \in 1..Len(d)}

RECURSIVE SumLen(_)
SumLen(d) == IF d = <<>> THEN 0 ELSE Len(Head(d).dels) + SumLen(Tail(d))

\* ------------------------------------------------------------ phase 1
\* The orders in which os.walk may list the entries of the folder.
Enumerations(dir) ==
  LET S == Present(dir)
      n == Cardinality(S)
  IN {s \in [1..n -> S] : \A a, b \in 1..n : a # b => s[a] # s[b]}

\* exact_hashes[file_hash].append(filepath)
AddHash(eh, h, p) ==
  IF \E k \in 1..Len(eh) : eh[k].hash = h
  THEN LET k == CHOOSE k \in 1..Len(eh) : eh[k].hash = h
       IN [eh EXCEPT ![k].paths = Append(@, p)]
  ELSE Append(eh, [hash |-> h, paths |-> <<p>>])

\* The walk: exact_hashes after the entries were listed in this order. Only a
\* regular file that is not a link is hashed, and only a file that was read
\* is recorded.
RECURSIVE ExactHashes(_, _)
ExactHashes(dir, order) ==
  IF order = <<>> THEN <<>>
  ELSE LET n == Len(order)
           p == order[n]
           eh == ExactHashes(dir, SubSeq(order, 1, n - 1))
           h == calculate_hash(dir, p)
       IN IF dir[p].kind = "file" /\ h.ok THEN AddHash(eh, h.hex, p) ELSE eh

\* Mutant of KeepOrder: the list is not sorted, the first path listed is kept.
KeepOrderAsListed(filepaths) == filepaths

\* The path kept of a group of exact duplicates: filepaths.sort(), then
\* filepaths[0].
KeepOrder(filepaths) == SortList(filepaths)

\* The loop over exact_hashes.items(): files_to_delete and
\* unique_files_after_exact.
RECURSIVE GroupExact(_)
GroupExact(eh) ==
  IF eh = <<>> THEN [ftd |-> <<>>, unique |-> {}]
  ELSE LET n == Len(eh)
           r == GroupExact(SubSeq(eh, 1, n - 1))
           filepaths == eh[n].paths
       IN IF Len(filepaths) > 1
          THEN LET sorted == KeepOrder(filepaths)
               IN [ftd |-> Extend(r.ftd, sorted[1], Tail(sorted)),
                   unique |-> r.unique \cup {sorted[1]}]
          ELSE [ftd |-> r.ftd, unique |-> r.unique \cup {filepaths[1]}]

\* ------------------------------------------------------------ phase 2
\* Mutant of UniqueList: sorted the wrong way round.
UniqueListReversed(unique) ==
  LET s == SortPaths(unique)
  IN [k \in 1..Len(s) |-> s[Len(s) + 1 - k]]

\* unique_list = sorted(list(unique_files_after_exact))
UniqueList(unique) == SortPaths(unique)

\* Mutant of DateSkip: only the name of file1 is tested.
DateSkipFirstOnly(filename1, filename2) == DatePattern(filename1)

\* The skip of a pair when either file name starts like a date.
DateSkip(filename1, filename2) ==
  DatePattern(filename1) \/ DatePattern(filename2)

\* is_already_duplicate: file2 is in some delete list of files_to_delete
IsAlreadyDuplicate(ftd, file2_path) ==
  \E k \in 1..Len(ftd) : file2_path \in Range(ftd[k].dels)

\* The pair reaches the comparison: none of the skips of the inner loop
\* applies and file2 can be read.
ReachesComparison(dir, ftd, psd, file1_path, file2_path) ==
  /\ ~DateSkip(file1_path, file2_path)
  /\ file2_path \notin psd
  /\ ~IsAlreadyDuplicate(ftd, file2_path)
  /\ read_file_lines(dir, file2_path).ok

\* ------------------------------------------------------------ clean-up
\* The filter of one delete list: the paths that are no key of
\* files_to_delete.
FilterDeleteList(ftd, delete_list) ==
  LET NotKey(f) == f \notin Keys(ftd)
  IN SelectSeq(delete_list, NotKey)

\* The key is dropped with its delete list.
SkipsKey(ftd, keep_file) == keep_file \in AllDeleted(ftd)

\* Mutant of CleanUpFrom: no clean-up, files_to_delete is returned as it is.
NoCleanUp(ftd, rest) == rest

\* final_deletes: the entries of files_to_delete whose key is in no delete
\* list, each list filtered.
RECURSIVE CleanUpFrom(_, _)
CleanUpFrom(ftd, rest) ==
  IF rest = <<>> THEN <<>>
  ELSE LET e == Head(rest)
       IN IF SkipsKey(ftd, e.keep) THEN CleanUpFrom(ftd, Tail(rest))
          ELSE <<[keep |-> e.keep, dels |-> FilterDeleteList(ftd, e.dels)]>>
                 \o CleanUpFrom(ftd, Tail(rest))

\* ------------------------------------------------------------ delete_files
\* The removals in the order of the loops: per entry,
\* sorted(list(set(delete_list))).
RECURSIVE DeleteOrder(_)
DeleteOrder(d) ==
  IF d = <<>> THEN <<>>
  ELSE SortPaths(Range(Head(d).dels)) \o DeleteOrder(Tail(d))

\* ------------------------------------------------------------ states
Directories ==
  { d \in [Names -> FileVals \cup {Absent}] : Cardinality(Present(d)) <= MaxFiles }

NoFolder == [n \in Names |-> Absent]

Yes == <<"y", "e", "s">>

Init ==
  /\ folder_is_dir \in BOOLEAN
  /\ fs \in (IF folder_is_dir THEN Directories ELSE {NoFolder})
  /\ similarity \in Similarities
  /\ dry_run \in BOOLEAN
  /\ pc = "main"
  /\ confirm = <<>>
  /\ files_to_delete = <<>>
  /\ unique_files_after_exact = {}
  /\ unique_list = <<>>
  /\ i = 1
  /\ j = 1
  /\ potential_similar_deletes = {}
  /\ final_deletes = <<>>
  /\ total_to_delete_count = 0
  /\ total_deleted_count = 0
  /\ pending = <<>>
  /\ fs0 = fs
  /\ phase1 = <<>>
  /\ compared = {}
  /\ attempts = <<>>
  /\ runs = 1
  /\ prev_result = <<>>

inputs == <<fs, folder_is_dir, similarity, dry_run, fs0>>
scan == <<files_to_delete, unique_files_after_exact, unique_list, i, j,
          potential_similar_deletes, final_deletes, phase1, compared>>
deletion == <<total_to_delete_count, total_deleted_count, pending, attempts>>
history == <<runs, prev_result>>

\* ------------------------------------------------------------ main
\* if not os.path.isdir(target_folder): return
CheckFolder ==
  /\ pc = "main"
  /\ pc' = IF folder_is_dir THEN "check_similarity" ELSE "exit"
  /\ UNCHANGED <<inputs, confirm, scan, deletion, history>>

\* if args.similarity is not None and not (0.0 <= args.similarity <= 1.0): return
CheckSimilarity ==
  /\ pc = "check_similarity"
  /\ pc' = IF similarity.given /\ ~InRange(similarity) THEN "exit" ELSE "confirm"
  /\ UNCHANGED <<inputs, confirm, scan, deletion, history>>

\* Report mode: no prompt.
NoConfirm ==
  /\ pc = "confirm"
  /\ dry_run
  /\ pc' = "find_duplicates"
  /\ UNCHANGED <<inputs, confirm, scan, deletion, history>>

\* Delete mode: confirm = input(...).lower(); anything but "yes" returns.
Confirm ==
  /\ pc = "confirm"
  /\ ~dry_run
  /\ \E typed \in TypedInputs :
       /\ confirm' = <<Lower(typed)>>
       /\ pc' = IF Lower(typed) # Yes THEN "exit" ELSE "find_duplicates"
  /\ UNCHANGED <<inputs, scan, deletion, history>>

\* ------------------------------------------------------------ find_duplicates
\* Phase 1: the walk in some enumeration order, then the grouping by hash.
Phase1 ==
  /\ pc = "find_duplicates"
  /\ \E r \in {GroupExact(ExactHashes(fs, order)) : order \in Enumerations(fs)} :
       /\ files_to_delete' = r.ftd
       /\ unique_files_after_exact' = r.unique
       /\ phase1' = r.ftd
  /\ pc' = "phase2"
  /\ UNCHANGED <<inputs, confirm, unique_list, i, j, potential_similar_deletes,
                 final_deletes, compared, deletion, history>>

\* Phase 2 runs only with a threshold below 1.0.
Phase2Enter ==
  /\ pc = "phase2"
  /\ Phase2Enabled(similarity)
  /\ unique_list' = UniqueList(unique_files_after_exact)
  /\ potential_similar_deletes' = {}
  /\ i' = 1
  /\ pc' = "outer"
  /\ UNCHANGED <<inputs, confirm, files_to_delete, unique_files_after_exact, j,
                 final_deletes, phase1, compared, deletion, history>>

Phase2Skip ==
  /\ pc = "phase2"
  /\ ~Phase2Enabled(similarity)
  /\ pc' = "cleanup"
  /\ UNCHANGED <<inputs, confirm, scan, deletion, history>>

\* One turn of the outer loop up to the inner loop: file1 is skipped when it
\* is marked or cannot be read; the loop ends after the last file.
OuterStep ==
  /\ pc = "outer"
  /\ IF i > Len(unique_list)
     THEN /\ pc' = "cleanup"
          /\ UNCHANGED <<i, j>>
     ELSE IF \/ unique_list[i] \in potential_similar_deletes
             \/ ~read_file_lines(fs, unique_list[i]).ok
     THEN /\ i' = i + 1
          /\ UNCHANGED <<pc, j>>
     ELSE /\ j' = i + 1
          /\ pc' = "inner"
          /\ UNCHANGED i
  /\ UNCHANGED <<inputs, confirm, files_to_delete, unique_files_after_exact,
                 unique_list, potential_similar_deletes, final_deletes, phase1,
                 compared, deletion, history>>

\* One turn of the inner loop: the skips, the comparison, the match.
InnerStep ==
  /\ pc = "inner"
  /\ IF j > Len(unique_list)
     THEN /\ i' = i + 1
          /\ pc' = "outer"
          /\ UNCHANGED <<j, files_to_delete, potential_similar_deletes, compared>>
     ELSE LET file1_path == unique_list[i]
              file2_path == unique_list[j]
              ratio == Ratio(read_file_lines(fs, file1_path).lines,
                             read_file_lines(fs, file2_path).lines)
          IN /\ j' = j + 1
             /\ UNCHANGED <<i, pc>>
             /\ IF ReachesComparison(fs, files_to_delete,
                                     potential_similar_deletes, file1_path,
                                     file2_path)
                THEN /\ compared' = compared \cup
                          {[a |-> file1_path, b |-> file2_path, ratio |-> ratio]}
                     /\ IF RatioAtLeast(ratio, similarity)
                        THEN /\ files_to_delete' =
                                  Extend(files_to_delete, file1_path, <<file2_path>>)
                             /\ potential_similar_deletes' =
                                  potential_similar_deletes \cup {file2_path}
                        ELSE UNCHANGED <<files_to_delete, potential_similar_deletes>>
                ELSE UNCHANGED <<files_to_delete, potential_similar_deletes, compared>>
  /\ UNCHANGED <<inputs, confirm, unique_files_after_exact, unique_list,
                 final_deletes, phase1, deletion, history>>

\* The clean-up pass and the return to main.
CleanUp ==
  /\ pc = "cleanup"
  /\ final_deletes' = CleanUpFrom(files_to_delete, files_to_delete)
  /\ pc' = "delete_files"
  /\ UNCHANGED <<inputs, confirm, files_to_delete, unique_files_after_exact,
                 unique_list, i, j, potential_similar_deletes, phase1, compared,
                 deletion, history>>

\* ------------------------------------------------------------ delete_files
\* The two early returns, the counts, and the start of the loops.
DeleteStart ==
  /\ pc = "delete_files"
  /\ IF final_deletes = <<>>
     THEN /\ pc' = "done"
          /\ UNCHANGED <<total_to_delete_count, total_deleted_count, pending>>
     ELSE /\ total_to_delete_count' = SumLen(final_deletes)
          /\ total_deleted_count' = 0
          /\ IF SumLen(final_deletes) = 0
             THEN /\ pc' = "done"
                  /\ UNCHANGED pending
             ELSE /\ pending' = DeleteOrder(final_deletes)
                  /\ pc' = "delete_loop"
  /\ UNCHANGED <<inputs, confirm, scan, attempts, history>>

\* Report mode: the path is printed.
ReportStep ==
  /\ pc = "delete_loop"
  /\ pending # <<>>
  /\ dry_run
  /\ pending' = Tail(pending)
  /\ UNCHANGED <<inputs, pc, confirm, scan, total_to_delete_count,
                 total_deleted_count, attempts, history>>

\* Mutant of AfterFailure: the first failure ends the batch.
AbortAfterFailure(rest) == <<>>

\* What follows an os.remove that raised OSError: the error is printed and
\* the loop goes on.
AfterFailure(rest) == rest

\* Delete mode: os.remove, which may raise OSError; a path that is gone
\* cannot be removed.
RemoveStep ==
  /\ pc = "delete_loop"
  /\ pending # <<>>
  /\ ~dry_run
  /\ \E ok \in BOOLEAN :
       /\ ok => fs[Head(pending)] # Absent
       /\ attempts' = Append(attempts, [path |-> Head(pending), ok |-> ok])
       /\ IF ok
          THEN /\ fs' = [fs EXCEPT ![Head(pending)] = Absent]
               /\ total_deleted_count' = total_deleted_count + 1
               /\ pending' = Tail(pending)
          ELSE /\ pending' = AfterFailure(Tail(pending))
               /\ UNCHANGED <<fs, total_deleted_count>>
  /\ UNCHANGED <<folder_is_dir, similarity, dry_run, fs0, pc, confirm, scan,
                 total_to_delete_count, history>>

\* The summary after the loops.
DeleteFinish ==
  /\ pc = "delete_loop"
  /\ pending = <<>>
  /\ pc' = "done"
  /\ UNCHANGED <<inputs, confirm, scan, deletion, history>>

\* ------------------------------------------------------------ runs
\* The program is run again, in report mode, on the folder it left as it was.
Rerun ==
  /\ pc = "done"
  /\ dry_run
  /\ runs < MaxRuns
  /\ runs' = runs + 1
  /\ prev_result' = final_deletes
  /\ pc' = "main"
  /\ confirm' = <<>>
  /\ files_to_delete' = <<>>
  /\ unique_files_after_exact' = {}
  /\ unique_list' = <<>>
  /\ i' = 1
  /\ j' = 1
  /\ potential_similar_deletes' = {}
  /\ final_deletes' = <<>>
  /\ total_to_delete_count' = 0
  /\ total_deleted_count' = 0
  /\ pending' = <<>>
  /\ phase1' = <<>>
  /\ compared' = {}
  /\ attempts' = <<>>
  /\ UNCHANGED inputs

Next ==
  \/ CheckFolder
  \/ CheckSimilarity
  \/ NoConfirm
  \/ Confirm
  \/ Phase1
  \/ Phase2Enter
  \/ Phase2Skip
  \/ OuterStep
  \/ InnerStep
  \/ CleanUp
  \/ DeleteStart
  \/ ReportStep
  \/ RemoveStep
  \/ DeleteFinish
  \/ Rerun

Spec == Init /\ [][Next]_vars

\* ------------------------------------------------------------ properties
\* find_duplicates has returned: final_deletes is the result handed to
\* delete_files.
FindReturned == pc \in {"delete_files", "delete_loop", "done"}

\* The files of the folder that phase 1 hashes.
Hashed(dir) == {p \in Present(dir) : dir[p].kind = "file" /\ dir[p].readable}

\* The hashed files with the digest of p.
SameDigest(dir, p) ==
  {q \in Hashed(dir) : Digest(dir[q].content) = Digest(dir[p].content)}

\* C1: in the result of find_duplicates no path is both a key and a member of
\* a delete list, no path is in the delete lists of two keys, and no path is
\* twice in one list.
C1_NoOverlap ==
  FindReturned =>
    /\ Keys(final_deletes) \cap AllDeleted(final_deletes) = {}
    /\ \A k, l \in 1..Len(final_deletes) :
         k # l => Range(final_deletes[k].dels) \cap Range(final_deletes[l].dels) = {}
    /\ \A k \in 1..Len(final_deletes) :
         Cardinality(Range(final_deletes[k].dels)) = Len(final_deletes[k].dels)

\* The clean-up pass met a key of files_to_delete that is in a delete list,
\* and the result has a group.
C1_Witness ==
  /\ FindReturned
  /\ Keys(files_to_delete) \cap AllDeleted(files_to_delete) # {}
  /\ final_deletes # <<>>

\* The phase-1 grouping, stated on the folder: one pair per digest shared by
\* two or more hashed files, of the smallest path and the set of the others.
ExactGroups(dir) ==
  { <<p, SameDigest(dir, p) \ {p}>> :
      p \in { q \in Hashed(dir) :
                /\ Cardinality(SameDigest(dir, q)) >= 2
                /\ \A o \in SameDigest(dir, q) \ {q} : LexLess(q, o) } }

C3_MatchedIsRedundant ==
  FindReturned =>
    \A c \in compared :
      RatioAtLeast(c.ratio, similarity) =>
        /\ c.a \in Keys(final_deletes)
        /\ c.b \in Range(Dels(final_deletes, c.a))

\* C4 as claimed: every key of the result has a delete list that is not
\* empty.
C4_NoEmptyGroup ==
  FindReturned =>
    \A k \in 1..Len(final_deletes) : final_deletes[k].dels # <<>>

\* The attempts made on path p.
AttemptsOn(p) == {k \in 1..Len(attempts) : attempts[k].path = p}

FailedAttempts == {k \in 1..Len(attempts) : ~attempts[k].ok}

\* C5: in delete mode every redundant path of the result gets one removal
\* attempt whatever failed before it, and at the end the number of files
\* removed is the number identified less the number of failed attempts.
C5_BatchContinues ==
  (pc = "done" /\ ~dry_run) =>
    /\ \A p \in AllDeleted(final_deletes) : Cardinality(AttemptsOn(p)) = 1
    /\ \A k \in 1..Len(attempts) : attempts[k].path \in AllDeleted(final_deletes)
    /\ total_deleted_count <= total_to_delete_count
    /\ total_to_delete_count - total_deleted_count = Cardinality(FailedAttempts)
    /\ total_to_delete_count = Cardinality(AllDeleted(final_deletes))
    /\ \A k \in 1..Len(attempts) :
         (fs[attempts[k].path] = Absent) <=> attempts[k].ok

\* A delete run ended in which a removal failed and a later one succeeded.
C5_Witness ==
  /\ pc = "done"
  /\ ~dry_run
  /\ \E k, l \in 1..Len(attempts) :
       k < l /\ ~attempts[k].ok /\ attempts[l].ok

\* The invocation is in error: the folder is no directory, the similarity is
\* given and outside [0, 1], or the prompt of delete mode was answered with
\* something other than "yes".
InvocationError ==
  \/ ~folder_is_dir
  \/ similarity.given /\ (similarity.num < 0 \/ similarity.num > similarity.den)
  \/ ~dry_run /\ confirm # <<>> /\ confirm[1] # Yes

\* C6: on an invocation error main never reaches find_duplicates or
\* delete_files, and no file is removed.
C6_ErrorsEndTheRun ==
  InvocationError =>
    /\ pc \in {"main", "check_similarity", "confirm", "exit"}
    /\ fs = fs0
    /\ attempts = <<>>
    /\ files_to_delete = <<>>
    /\ final_deletes = <<>>

\* Delete mode on a folder holding exact duplicates, the prompt answered
\* "no": the run has ended.
C6_Witness ==
  /\ pc = "exit"
  /\ ~dry_run
  /\ folder_is_dir
  /\ InRange(similarity)
  /\ confirm = << <<"n", "o">> >>
  /\ ExactGroups(fs) # {}

\* C7: a second run over the same folder returns the same mapping of keepers
\* to delete lists as the first, whatever the order of enumeration of either.
C7_OrderIndependent ==
  (FindReturned /\ runs >= 2) => Mapping(final_deletes) = Mapping(prev_result)

\* A second run with phase 2 enabled returned a group that holds an exact
\* duplicate and a similar file, over a folder of three hashed files.
C7_Witness ==
  /\ FindReturned
  /\ runs >= 2
  /\ Phase2Enabled(similarity)
  /\ Cardinality(Hashed(fs)) >= 3
  /\ \E k \in 1..Len(final_deletes) : Len(final_deletes[k].dels) >= 2
  /\ phase1 # <<>>

\* C8: a file with a date-like name is in a group, as keeper or as member,
\* only with files of its own digest, and is never marked by phase 2.
C8_DateExempt ==
  /\ \A p \in potential_similar_deletes : ~DatePattern(p)
  /\ \A c \in compared : ~DatePattern(c.a) /\ ~DatePattern(c.b)
  /\ \A d \in {files_to_delete, final_deletes} :
       \A k \in 1..Len(d) :
         \A f \in Range(d[k].dels) :
           (DatePattern(d[k].keep) \/ DatePattern(f)) =>
             Digest(fs0[f].content) = Digest(fs0[d[k].keep].content)

\* Phase 2 ended over three survivors, the date-like one between the two
\* others, its lines similar enough to those of both.
C8_Witness ==
  /\ pc = "cleanup"
  /\ Phase2Enabled(similarity)
  /\ Len(unique_list) = 3
  /\ DatePattern(unique_list[2])
  /\ \A k \in {1, 3} :
       RatioAtLeast(Ratio(ReadLines(fs[unique_list[k]].content),
                          ReadLines(fs[unique_list[2]].content)), similarity)
  /\ similarity.num > 0

\* C9: in the result every keeper is smaller than every member of its group,
\* and no file marked by a phase-2 match is a keeper.
C9_KeeperIsSmallest ==
  FindReturned =>
    /\ \A k \in 1..Len(final_deletes) :
         \A f \in Range(final_deletes[k].dels) : LexLess(final_deletes[k].keep, f)
    /\ Keys(final_deletes) \cap potential_similar_deletes = {}

\* The result has a group with a member marked by phase 2.
C9_Witness ==
  /\ FindReturned
  /\ AllDeleted(final_deletes) \cap potential_similar_deletes # {}
  /\ AllDeleted(final_deletes) \ potential_similar_deletes # {}

\* C10 as claimed: with phase 2 enabled every path that phase 1 marked
\* redundant is a member of some group of the result.
C10_ExactDuplicatesKept ==
  (FindReturned /\ Phase2Enabled(similarity)) =>
    AllDeleted(phase1) \subseteq AllDeleted(final_deletes)

====
